---- MODULE Spec2Model ----
(***************************************************************************)
(* Deep Q-Learning agent for CarRacing: the train program                  *)
(* (carracing/qlearning/train.py), the test program                        *)
(* (carracing/qlearning/test.py) and the action codec                      *)
(* (qlearning/common/space.py) as one state machine.                       *)
(*                                                                         *)
(* Frames are numbered by the environment step that produced them (0 is    *)
(* the frame of reset).  Policy parameters are abstracted to a version     *)
(* number: every optimizer step gives the train policy a new version.      *)
(* Epsilon is kept as an exact integer multiple of 1 / EpsScale.           *)
(***************************************************************************)
EXTENDS Integers, Sequences, FiniteSets, TLC

VARIABLES
    prog,                 \* "train" | "test" | "codec": which entry point runs
    pc,                   \* position in main()
    exc,                  \* exception that ended the program, or "none"
    config,               \* ConfigParams
    args,                 \* command line: initial_experience_file, test_episodes
    env,                  \* [handle, kind, t]: the gym environment
    windows_destroyed,    \* cv2.destroyAllWindows() has run
    train_model,          \* train policy parameters (version)
    target_model,         \* target policy parameters (version)
    experience_buffer,    \* ExperienceBuffer
    sampled_experience,   \* result of the last sample()
    num_episode,          \* loop variable of the episode loop
    epsilon,              \* exploration rate of the episode, times EpsScale
    input_states,         \* InputStates: the rolling window of frames
    warm_i,               \* warmup steps done in this episode
    done,                 \* loop flag
    consecutive_negative_rewards,
    losses,               \* len(losses) of this episode
    action_id,            \* id chosen by the last explore or greedy step
    rand_draw,            \* np.random.rand() of the last explore step, times EpsScale
    warmup_done,          \* a warmup step of the running episode returned done=True
    action,               \* continuous action given to the last env.step
    reward,               \* reward of the last env.step
    val_i,                \* validation episodes completed in the running validation
    val,                  \* the running call of run_validation_episode
    checkpoints,          \* saved models: set of <<episode number, parameters>>
    history,              \* every transition given to the buffer, in order
    synced,               \* train parameters at the most recent sync event
    decoded,              \* log of the codec's calls: sequence of <<id, vector>>
    decode_argument      \* argument of the codec's last call on any argument

vars == << prog, pc, exc, config, args, env, windows_destroyed, train_model,
           target_model, experience_buffer, sampled_experience, num_episode,
           epsilon, input_states, warm_i, done, consecutive_negative_rewards,
           losses, action_id, rand_draw, warmup_done, action, reward, val_i, val,
           checkpoints, history, synced, decoded, decode_argument >>

----------------------------------------------------------------------------
(* Bounds of the model *)

MaxFrames == 2       \* input_num_frames ranges over 1..MaxFrames
MaxSize == 2         \* experience_buffer_size ranges over 1..MaxSize
MaxEpisodes == 2     \* num_episodes and test_episodes range over 0..MaxEpisodes
MaxSteps == 2        \* the environment ends an episode after at most MaxSteps steps
MaxDecodes == 3      \* calls of get_continuous_actions in a run of the codec alone
MaxIndex == 3        \* arguments of the codec range over -1..MaxIndex per component

(* Program constants *)

LongValidationEpisodes == 10

----------------------------------------------------------------------------
(* qlearning/common/space.py *)

steer_to_continuous_shifted == [i \in {0, 1, 2} |-> i]

steer_to_continuous_wrapping ==
    [i \in {0 - 1, 0, 1, 2} |-> CASE i = 0 -> -1 [] i = 1 -> 0 [] OTHER -> 1]

steer_to_continuous == [i \in {0, 1, 2} |-> CASE i = 0 -> -1 [] i = 1 -> 0 [] i = 2 -> 1]
gas_to_continuous == [i \in {0, 1} |-> CASE i = 0 -> 0 [] i = 1 -> 1]
brake_to_continuos == [i \in {0, 1} |-> CASE i = 0 -> 0 [] i = 1 -> 1]

encoded_actions_table ==
    << <<0, 0, 0>>, <<0, 0, 1>>, <<0, 1, 0>>, <<0, 1, 1>>,
       <<1, 0, 0>>, <<1, 0, 1>>, <<1, 1, 0>>, <<1, 1, 1>>,
       <<2, 0, 0>>, <<2, 0, 1>>, <<2, 1, 0>>, <<2, 1, 1>> >>

\* the dict: keys 0..11
encoded_actions ==
    [id \in 0..(Len(encoded_actions_table) - 1) |-> encoded_actions_table[id + 1]]

\* a failed dict lookup
KeyError == "KeyError"

\* lines 38-40: one of the three dictionary lookups finds no key
KeyErrors(d) ==
    \/ d[1] \notin DOMAIN steer_to_continuous
    \/ d[2] \notin DOMAIN gas_to_continuous
    \/ d[3] \notin DOMAIN brake_to_continuos

get_continuous_actions(discrete_actions) ==
    IF ~KeyErrors(discrete_actions)
    THEN << steer_to_continuous[discrete_actions[1]],
            gas_to_continuous[discrete_actions[2]],
            brake_to_continuos[discrete_actions[3]] >>
    ELSE KeyError

\* get_encoded_actions(complexity): the ordered list of available actions.
\* "full" is every entry of encoded_actions; "simple" omits the brake;
\* "basic" also omits steering.
get_encoded_actions(complexity) ==
    LET ids == CASE complexity = "full" -> << 0, 1, 2, 3, 4, 5, 6, 7, 8, 9, 10, 11 >>
                 [] complexity = "simple" -> << 0, 2, 4, 6, 8, 10 >>
                 [] complexity = "basic" -> << 4, 6 >>
    IN  [i \in 0..(Len(ids) - 1) |-> encoded_actions[ids[i + 1]]]

len(f) == Cardinality(DOMAIN f)

----------------------------------------------------------------------------
(* ExperienceBuffer: a bounded FIFO of transitions, oldest first *)

ExperienceBuffer(max_size) == [max_size |-> max_size, buffer |-> << >>, size |-> 0]

add_evicting_newest(eb, experience) ==
    [eb EXCEPT
        !.buffer = IF Len(eb.buffer) >= eb.max_size
                   THEN Append(SubSeq(eb.buffer, 1, Len(eb.buffer) - 1), experience)
                   ELSE Append(eb.buffer, experience),
        !.size = IF eb.size < eb.max_size THEN eb.size + 1 ELSE eb.max_size]

add(eb, experience) ==
    LET appended == Append(eb.buffer, experience)
    IN  [eb EXCEPT
            !.buffer = IF Len(eb.buffer) >= eb.max_size THEN Tail(appended) ELSE appended,
            !.size = IF eb.size < eb.max_size THEN eb.size + 1 ELSE eb.max_size]

is_full(eb) == eb.size = eb.max_size

sample_without_replacement(eb, batch_size) ==
    IF eb.size = 0 THEN {}
    ELSE LET n == IF batch_size < eb.size THEN batch_size ELSE eb.size
         IN  { [k \in 1..n |-> eb.buffer[ix[k]]] : ix \in [1..n -> 1..eb.size] }

\* sample(batch_size): every result of drawing batch_size entries uniformly
\* with replacement; no result (an error) on an empty buffer
sample(eb, batch_size) ==
    IF eb.size = 0 THEN {}
    ELSE { [k \in 1..batch_size |-> eb.buffer[ix[k]]] : ix \in [1..batch_size -> 1..eb.size] }

\* from_experience_buffer(other): asserts other.max_size <= self.max_size,
\* then takes over other's contents
from_experience_buffer_ok(eb, other) == other.max_size <= eb.max_size

from_experience_buffer(eb, other) ==
    [eb EXCEPT !.buffer = other.buffer, !.size = other.size]

----------------------------------------------------------------------------
(* InputStates: the last num_frames processed frames, oldest first *)

InputStates(num_frames) == [num_frames |-> num_frames, states |-> << >>]

add_state(is, frame) ==
    LET appended == Append(is.states, frame)
    IN  [is EXCEPT !.states = IF Len(is.states) >= is.num_frames
                              THEN Tail(appended) ELSE appended]

as_list(is) == is.states

----------------------------------------------------------------------------
(* Numbers *)

RECURSIVE Pow2(_)
Pow2(n) == IF n <= 0 THEN 1 ELSE 2 * Pow2(n - 1)

\* epsilon values are integers in units of 1 / EpsScale; the configuration
\* gives initial_epsilon and min_epsilon in tenths
EpsUnit == Pow2(MaxEpisodes)
EpsScale == 10 * EpsUnit

\* np.exp(x * ln 2) in units of 1 / EpsUnit, for an integer x >= -MaxEpisodes:
\* eps_decay_rate is given in units of ln 2, so that the value is exact
np_exp(x) == Pow2(MaxEpisodes + x)

Epsilon_of_next_episode(cfg, n) ==
    cfg.min_epsilon * EpsUnit
        + (cfg.initial_epsilon - cfg.min_epsilon)
            * np_exp((0 - cfg.eps_decay_rate) * (n + 1))

\* train.py line 158
Epsilon(cfg, n) ==
    cfg.min_epsilon * EpsUnit
        + (cfg.initial_epsilon - cfg.min_epsilon) * np_exp((0 - cfg.eps_decay_rate) * n)

\* np.random.rand(): the ends of [0, 1), in units of 1 / EpsScale
RandDraws == {0, EpsScale - 1}

\* np.random.randint(0, n): the ends of the range
RandInts(n) == {0, n - 1}

\* the model oracle: per-action value estimates of a stacked state under the
\* parameters params; estimates tie at every third action
Estimates(params, stacked, n) ==
    [i \in 0..(n - 1) |->
        IF (i + params + stacked[Len(stacked)]) % 3 = 0 THEN 1 ELSE 0]

np_argmax_last(values) ==
    CHOOSE i \in DOMAIN values :
        /\ \A j \in DOMAIN values : values[j] <= values[i]
        /\ \A j \in DOMAIN values : j > i => values[j] < values[i]

\* np.argmax: the first index of the maximum
np_argmax(values) ==
    CHOOSE i \in DOMAIN values :
        /\ \A j \in DOMAIN values : values[j] <= values[i]
        /\ \A j \in DOMAIN values : j < i => values[j] < values[i]

----------------------------------------------------------------------------
(* Inputs: configuration files, command lines, pickled buffers, environments *)

\* a transition of a pre-recorded buffer, with n components
Recorded(i, n) == [k \in 1..n |-> IF k \in {1, 4} THEN << 0 - i >> ELSE 0]

\* pickled ExperienceBuffer objects: capacity m, k transitions of n components
LoadedBuffers ==
    { [max_size |-> m, buffer |-> [i \in 1..k |-> Recorded(i, n)], size |-> k] :
        m \in 1..(MaxSize + 1), k \in 0..(MaxSize + 1), n \in {4, 5} }

PickledBuffers ==
    { b \in LoadedBuffers :
        /\ b.size <= b.max_size
        /\ (b.size > 0 /\ Len(b.buffer[1]) = 4) => b.size = b.max_size }

\* --initial_experience_file: not given, given but no such file, or a pickle
NoFile == [given |-> FALSE, exists |-> FALSE, pickle |-> ExperienceBuffer(0)]
MissingFile == [given |-> TRUE, exists |-> FALSE, pickle |-> ExperienceBuffer(0)]
ExperienceFiles == { [given |-> TRUE, exists |-> TRUE, pickle |-> b] : b \in PickledBuffers }

BaseConfig ==
    [ input_num_frames |-> 1,
      batch_size |-> 1,
      action_complexity |-> "full",
      consecutive_neg_reward_stop |-> MaxSteps,
      experience_buffer_size |-> MaxSize,
      num_episodes |-> MaxEpisodes,
      initial_epsilon |-> 8,
      min_epsilon |-> 2,
      eps_decay_rate |-> 1,
      update_target_frequency |-> 2,
      short_validation_frequency |-> MaxEpisodes + 1,
      long_validation_frequency |-> MaxEpisodes + 1,
      save_model_frequency |-> 1,
      validation_frequency |-> MaxEpisodes + 1 ]

\* the end-to-end scenario of the specification
ScenarioConfig ==
    [ BaseConfig EXCEPT !.input_num_frames = 4, !.experience_buffer_size = 100,
                        !.batch_size = 8, !.num_episodes = 1,
                        !.consecutive_neg_reward_stop = 1000 ]

\* a full pre-recorded buffer of the configured capacity, five components
\* per transition
GoodFile ==
    [given |-> TRUE, exists |-> TRUE,
     pickle |-> [max_size |-> MaxSize, buffer |-> [i \in 1..MaxSize |-> Recorded(i, 5)],
                 size |-> MaxSize]]

\* configurations and command lines of the train program: each family varies
\* some options around BaseConfig
TrainInputs ==
    ( { [ BaseConfig EXCEPT !.input_num_frames = n, !.experience_buffer_size = m,
                            !.batch_size = b ] :
          n \in 1..MaxFrames, m \in 1..MaxSize, b \in 1..2 }
      \X ({NoFile, MissingFile} \cup ExperienceFiles) )
    \cup
    ( ( { [ BaseConfig EXCEPT !.num_episodes = ne, !.update_target_frequency = f,
                              !.save_model_frequency = g ] :
            ne \in 0..MaxEpisodes, f \in 1..2, g \in 1..2 }
        \cup { [ BaseConfig EXCEPT !.input_num_frames = MaxFrames,
                                   !.short_validation_frequency = f,
                                   !.long_validation_frequency = MaxEpisodes ] :
            f \in 1..2 }
        \cup { [ BaseConfig EXCEPT !.consecutive_neg_reward_stop = st ] :
            st \in (0 - 1)..MaxSteps }
        \cup { [ BaseConfig EXCEPT !.initial_epsilon = i, !.min_epsilon = m,
                                   !.eps_decay_rate = r ] :
            i \in {0, 2, 8, 10}, m \in {0, 2, 8}, r \in {-1, 0, 1} } )
      \X {NoFile, GoodFile} )

\* configurations and command lines of qlearning/train.py: every pickled
\* buffer, one run with a validation episode, and one whose configuration file
\* sets consecutive_negative_reward_stop to 1
QTrainInputs ==
    ( { BaseConfig } \X ({NoFile, MissingFile} \cup ExperienceFiles) )
    \cup { << [ BaseConfig EXCEPT !.validation_frequency = 1 ], GoodFile >>,
            << [ BaseConfig EXCEPT !.consecutive_neg_reward_stop = 1 ], GoodFile >> }

TestArgs ==
    { [ initial_experience_file |-> NoFile, test_episodes |-> n ] : n \in 0..MaxEpisodes }

TypeOK ==
    /\ prog \in {"train", "qtrain", "test", "codec"}
    /\ exc \in {"none", "AssertionError", "KeyboardInterrupt", "InsufficientDataError",
                "ValueError", "ZeroDivisionError", "KeyError"}
    /\ env.handle \in {"none", "open", "closed"}
    /\ done \in BOOLEAN
    /\ experience_buffer.size \in Nat

\* no call of run_validation_episode is running
ValIdle ==
    [pc |-> "idle", input_states |-> InputStates(0), warm_i |-> 0, done |-> FALSE,
     action_id |-> 0, action |-> << >>]

InitCommon ==
    /\ pc = "start"
    /\ exc = "none"
    /\ windows_destroyed = FALSE
    /\ train_model = 0
    /\ target_model = -1
    /\ experience_buffer = ExperienceBuffer(0)
    /\ sampled_experience = << >>
    /\ num_episode = 0
    /\ epsilon = 0
    /\ input_states = InputStates(0)
    /\ warm_i = 0
    /\ done = FALSE
    /\ consecutive_negative_rewards = 0
    /\ losses = 0
    /\ action_id = 0
    /\ rand_draw = 0 - 1
    /\ warmup_done = FALSE
    /\ action = << >>
    /\ reward = 0
    /\ val_i = 0
    /\ val = ValIdle
    /\ checkpoints = {}
    /\ history = << >>
    /\ synced = -1
    /\ decoded = << >>
    /\ decode_argument = << >>

Init ==
    /\ InitCommon
    /\ \/ /\ prog = "train"
          /\ \/ /\ \E in \in TrainInputs :
                    /\ config = in[1]
                    /\ args = [initial_experience_file |-> in[2], test_episodes |-> 0]
                /\ env = [handle |-> "none", kind |-> "free", t |-> 0, length |-> MaxSteps]
             \/ /\ config = ScenarioConfig
                /\ args = [initial_experience_file |-> NoFile, test_episodes |-> 0]
                /\ env = [handle |-> "none", kind |-> "synthetic", t |-> 0, length |-> 20]
       \/ /\ prog = "qtrain"
          /\ \E in \in QTrainInputs :
                /\ config = in[1]
                /\ args = [initial_experience_file |-> in[2], test_episodes |-> 0]
          /\ env = [handle |-> "none", kind |-> "free", t |-> 0, length |-> MaxSteps]
       \/ /\ prog = "test"
          /\ config \in { [ BaseConfig EXCEPT !.input_num_frames = n ] : n \in 1..MaxFrames }
          /\ args \in TestArgs
          /\ env = [handle |-> "none", kind |-> "free", t |-> 0, length |-> MaxSteps]

----------------------------------------------------------------------------
(* The environment oracle *)

\* env.reset(): frame 0
env_reset(e) == [e EXCEPT !.t = 0]

\* env.step(action): the frame is numbered by the step.  The free environment
\* returns any reward and any done, and done at the latest on step
\* length after a warmup of n - 1 steps; the synthetic one returns reward 1
\* and done on step length only.
env_step_results(e, n) ==
    LET k == (e.t + 1) - (n - 1)
    IN  { [next_state |-> e.t + 1, reward |-> r, done |-> d] :
            r \in (IF e.kind = "free" THEN {-1, 0} ELSE {1}),
            d \in (IF k >= e.length THEN {TRUE}
                   ELSE IF e.kind = "free" THEN BOOLEAN ELSE {FALSE}) }

env_step(e) == [e EXCEPT !.t = e.t + 1]

env_close(e) == [e EXCEPT !.handle = "closed", !.t = 0]

----------------------------------------------------------------------------
(* train.py: main *)

constv == << prog, config, args, decoded, decode_argument >>
\* the locals of one episode and of its steps
localv == << epsilon, input_states, warm_i, done, consecutive_negative_rewards, losses,
             action_id, rand_draw, warmup_done, action, reward >>
episodev == << num_episode, localv >>
modelv == << train_model, target_model, synced >>
bufferv == << experience_buffer, sampled_experience, history >>
valv == << val_i, val >>

available_actions == get_encoded_actions(config.action_complexity)

WarmupSteps_one_less == config.input_num_frames - 2

\* line 171 (line 53, test.py line 73): range(0, config.input_num_frames - 1)
WarmupSteps == config.input_num_frames - 1

\* the two training programs: carracing/qlearning/train.py ("train") and the
\* older qlearning/train.py ("qtrain")
TrainProgs == { "train", "qtrain" }

\* positions of main inside the try block of lines 151-315
TryPcs == { "episode_start", "warmup", "explore", "sample", "update", "episode_end",
            "short_validation", "long_validation", "save_model" }

\* lines 316-319: the finally block
FinallyEnv(e) == env_close(e)

\* main is left at the current position, by the exception e or at its end:
\* inside the try block the finally block runs first; qlearning/train.py has
\* no try block and releases at its end only (lines 270-271).  The locals of the
\* episode are forgotten; the buffer, the models and the checkpoints are kept
\* as the outcome of the run.
Leave(e) ==
    /\ pc' = "exit"
    /\ exc' = e
    /\ IF \/ prog = "train" /\ pc \in TryPcs
          \/ prog = "qtrain" /\ e = "none"
       THEN /\ env' = FinallyEnv(env)
            /\ windows_destroyed' = TRUE
       ELSE UNCHANGED << env, windows_destroyed >>
    /\ sampled_experience' = << >>
    /\ epsilon' = 0
    /\ input_states' = InputStates(0)
    /\ warm_i' = 0
    /\ done' = FALSE
    /\ consecutive_negative_rewards' = 0
    /\ losses' = 0
    /\ action_id' = 0
    /\ rand_draw' = 0 - 1
    /\ warmup_done' = FALSE
    /\ action' = << >>
    /\ reward' = 0
    /\ val_i' = 0
    /\ val' = ValIdle

Raise(e) == Leave(e)

\* line 101
MakeEnv ==
    /\ prog \in TrainProgs
    /\ pc = "start"
    /\ env' = [env EXCEPT !.handle = "open"]
    /\ pc' = "setup"
    /\ UNCHANGED << constv, exc, windows_destroyed, episodev, modelv, bufferv, valv,
                    checkpoints >>

\* lines 103-129: output directory, the two models, the initial copy
Setup ==
    /\ prog \in TrainProgs
    /\ pc = "setup"
    /\ target_model' = train_model
    /\ synced' = train_model
    /\ pc' = "load_experience"
    /\ UNCHANGED << constv, exc, env, windows_destroyed, episodev, train_model, bufferv,
                    valv, checkpoints >>

\* line 140
LoadedSizeOk(loaded) == loaded.size <= config.experience_buffer_size

\* lines 131-149
LoadExperience ==
    /\ prog = "train"
    /\ pc = "load_experience"
    /\ LET fresh == ExperienceBuffer(config.experience_buffer_size)
           file == args.initial_experience_file
           loaded == file.pickle
       IN  IF ~file.given
           THEN /\ experience_buffer' = fresh
                /\ pc' = "episode_start"
                /\ UNCHANGED << exc, env, windows_destroyed, history, localv,
                                sampled_experience, valv >>
           ELSE IF \/ ~file.exists
                   \/ ~LoadedSizeOk(loaded)
                   \/ ~from_experience_buffer_ok(fresh, loaded)
           THEN /\ Raise("AssertionError")
                /\ experience_buffer' = fresh
                /\ UNCHANGED history
           ELSE /\ experience_buffer' = from_experience_buffer(fresh, loaded)
                /\ history' = loaded.buffer
                /\ pc' = "episode_start"
                /\ UNCHANGED << exc, env, windows_destroyed, localv, sampled_experience,
                                valv >>
    /\ UNCHANGED << constv, num_episode, modelv, checkpoints >>

\* qlearning/train.py lines 128-140: the pickled buffer takes the place of the
\* training buffer
QLoadExperience ==
    /\ prog = "qtrain"
    /\ pc = "load_experience"
    /\ LET file == args.initial_experience_file
           loaded == file.pickle
       IN  IF ~file.given
           THEN /\ experience_buffer' = ExperienceBuffer(config.experience_buffer_size)
                /\ pc' = "episode_start"
                /\ UNCHANGED << exc, env, windows_destroyed, history, localv,
                                sampled_experience, valv >>
           ELSE IF ~file.exists
           THEN /\ Raise("AssertionError")
                /\ UNCHANGED << experience_buffer, history >>
           ELSE IF ~LoadedSizeOk(loaded)
           THEN /\ Raise("AssertionError")
                /\ experience_buffer' = loaded
                /\ history' = loaded.buffer
           ELSE /\ experience_buffer' = loaded
                /\ history' = loaded.buffer
                /\ pc' = "episode_start"
                /\ UNCHANGED << exc, env, windows_destroyed, localv, sampled_experience,
                                valv >>
    /\ UNCHANGED << constv, num_episode, modelv, checkpoints >>

LoopCondition_inclusive(d, c) == ~d /\ c <= config.consecutive_neg_reward_stop

\* line 179; qlearning/train.py line 165 is "while not done"
LoopCondition(d, c) ==
    ~d /\ (prog = "train" => c < config.consecutive_neg_reward_stop)

\* lines 153-169: the head of the episode loop, reset and the first frame
EpisodeStart ==
    /\ prog \in TrainProgs
    /\ pc = "episode_start"
    /\ IF num_episode < config.num_episodes
       THEN /\ epsilon' = Epsilon(config, num_episode)
            /\ losses' = 0
            /\ env' = env_reset(env)
            /\ input_states' = add_state(InputStates(config.input_num_frames), 0)
            /\ warm_i' = 0
            /\ warmup_done' = FALSE
            /\ pc' = "warmup"
            /\ UNCHANGED << exc, windows_destroyed, done, consecutive_negative_rewards,
                            action_id, rand_draw, action, reward, sampled_experience, valv >>
       ELSE Leave("none")
    /\ UNCHANGED << constv, num_episode, modelv, experience_buffer, history,
                    checkpoints >>

\* lines 171-175: one warmup step
WarmupStep ==
    /\ prog \in TrainProgs
    /\ pc = "warmup"
    /\ warm_i < WarmupSteps
    /\ \E r \in env_step_results(env, config.input_num_frames) :
        /\ action' = get_continuous_actions(available_actions[0])
        /\ env' = env_step(env)
        /\ reward' = r.reward
        /\ done' = r.done
        /\ warmup_done' = (warmup_done \/ r.done)
        /\ input_states' = add_state(input_states, r.next_state)
    /\ warm_i' = warm_i + 1
    /\ UNCHANGED << constv, pc, exc, windows_destroyed, num_episode, epsilon,
                    consecutive_negative_rewards, losses, action_id, rand_draw, modelv, bufferv,
                    valv, checkpoints >>

LoopFlagAfterWarmup_kept(d) == d

\* line 177 (line 60, test.py line 80): done = False ahead of the loop,
\* d the flag the warmup left
LoopFlagAfterWarmup(d) == FALSE

\* lines 177-179: entry of the step loop
EnterLoop ==
    /\ prog \in TrainProgs
    /\ pc = "warmup"
    /\ warm_i >= WarmupSteps
    /\ done' = LoopFlagAfterWarmup(done)
    /\ consecutive_negative_rewards' = 0
    /\ pc' = IF LoopCondition(LoopFlagAfterWarmup(done), 0) THEN "explore" ELSE "episode_end"
    /\ UNCHANGED << constv, exc, env, windows_destroyed, num_episode, epsilon,
                    input_states, warm_i, losses, action_id, rand_draw, warmup_done, action,
                    reward, modelv,
                    bufferv, valv, checkpoints >>

\* lines 203-206
NextNegativeRewards(c, r) == IF r >= 0 THEN 0 ELSE c + 1

Store_always(eb, d, experience) == add(eb, experience)

\* lines 214-215
Store(eb, d, experience) == IF ~d THEN add(eb, experience) ELSE eb

\* lines 188-191: the epsilon-greedy choice, u and k the random draws
ChooseAction(u, k, values) == IF u < epsilon THEN k ELSE np_argmax(values)

StateBefore_aliased(is, next_is) == as_list(next_is)

\* lines 209-210: s is the list as_list() gave ahead of add_state(next_state)
StateBefore(is, next_is) == as_list(is)

\* lines 181-219: the exploration step
ExploreStep ==
    /\ prog \in TrainProgs
    /\ pc = "explore"
    /\ \E u \in RandDraws, k \in RandInts(len(available_actions)),
          r \in env_step_results(env, config.input_num_frames) :
        LET values == Estimates(train_model, as_list(input_states), len(available_actions))
            id == ChooseAction(u, k, values)
            next_input_states == add_state(input_states, r.next_state)
            s == StateBefore(input_states, next_input_states)
            s1 == as_list(next_input_states)
            experience == << s, id, r.reward, s1 >>
        IN  /\ action_id' = id
            /\ rand_draw' = u
            /\ action' = get_continuous_actions(available_actions[id])
            /\ env' = env_step(env)
            /\ reward' = r.reward
            /\ done' = r.done
            /\ consecutive_negative_rewards' =
                   IF prog = "train"
                   THEN NextNegativeRewards(consecutive_negative_rewards, r.reward)
                   ELSE consecutive_negative_rewards
            /\ input_states' = next_input_states
            /\ experience_buffer' = Store(experience_buffer, r.done, experience)
            /\ history' = IF ~r.done THEN Append(history, experience) ELSE history
    /\ pc' = "sample"
    /\ UNCHANGED << constv, exc, windows_destroyed, num_episode, epsilon, warm_i, losses,
                    warmup_done, modelv, sampled_experience, valv, checkpoints >>

\* line 224: experience_buffer.sample
SampleStep ==
    /\ prog \in TrainProgs
    /\ pc = "sample"
    /\ IF sample(experience_buffer, config.batch_size) = {}
       THEN Raise("InsufficientDataError")
       ELSE /\ sampled_experience' \in sample(experience_buffer, config.batch_size)
            /\ pc' = "update"
            /\ UNCHANGED << exc, env, windows_destroyed, localv, valv >>
    /\ UNCHANGED << constv, num_episode, modelv, experience_buffer, history,
                    checkpoints >>

RECURSIVE MinLen(_)
MinLen(rows) ==
    IF Len(rows) = 1 THEN Len(rows[1])
    ELSE LET m == MinLen(Tail(rows))
         IN  IF Len(rows[1]) < m THEN Len(rows[1]) ELSE m

\* line 227: zip(*sampled_experience) gives as many lists as the shortest
\* record has components, and they are unpacked into five names
UnpackOk(sampled) == MinLen(sampled) = 5

\* lines 227-259: the training step on the sampled minibatch, which is
\* consumed by it
UpdateStep ==
    /\ prog \in TrainProgs
    /\ pc = "update"
    /\ IF ~UnpackOk(sampled_experience)
       THEN /\ Raise("ValueError")
            /\ UNCHANGED train_model
       ELSE /\ train_model' = train_model + 1
            /\ losses' = losses + 1
            /\ sampled_experience' = << >>
            /\ pc' = IF LoopCondition(done, consecutive_negative_rewards)
                     THEN "explore" ELSE "episode_end"
            /\ UNCHANGED << exc, env, windows_destroyed, epsilon, input_states, warm_i,
                            done, consecutive_negative_rewards, action_id, rand_draw,
                            warmup_done, action,
                            reward, valv >>
    /\ UNCHANGED << constv, num_episode, target_model, synced, experience_buffer,
                    history, checkpoints >>

SyncDue_zero_based(n) == n % config.update_target_frequency = 0

\* line 272
SyncDue(n) == (n + 1) % config.update_target_frequency = 0

\* lines 261-274: end of the episode, target synchronization
EndEpisode ==
    /\ prog \in TrainProgs
    /\ pc = "episode_end"
    /\ target_model' = IF SyncDue(num_episode) THEN train_model ELSE target_model
    /\ synced' = IF (num_episode + 1) % config.update_target_frequency = 0
                 THEN train_model ELSE synced
    /\ warmup_done' = FALSE
    /\ pc' = "short_validation"
    /\ UNCHANGED << constv, exc, env, windows_destroyed, num_episode, epsilon,
                    input_states, warm_i, done, consecutive_negative_rewards, losses,
                    action_id, rand_draw, action, reward, train_model, bufferv, valv,
                    checkpoints >>

\* line 278; qlearning/train.py line 256 has one validation_frequency
ValidationFrequency ==
    IF prog = "train" THEN config.short_validation_frequency
    ELSE config.validation_frequency

\* lines 278-285: one validation episode every short_validation_frequency episodes
ShortValidation ==
    /\ prog \in TrainProgs
    /\ pc = "short_validation"
    /\ val.pc = "idle"
    /\ IF (num_episode + 1) % ValidationFrequency = 0 /\ val_i < 1
       THEN /\ val' = [ValIdle EXCEPT !.pc = "reset"]
            /\ UNCHANGED << pc, val_i >>
       ELSE /\ pc' = "long_validation"
            /\ val_i' = 0
            /\ UNCHANGED val
    /\ UNCHANGED << constv, exc, env, windows_destroyed, episodev, modelv, bufferv,
                    checkpoints >>

\* lines 288-299: LongValidationEpisodes validation episodes every
\* long_validation_frequency episodes
LongValidation ==
    /\ prog \in TrainProgs
    /\ pc = "long_validation"
    /\ val.pc = "idle"
    /\ IF /\ prog = "train"
          /\ (num_episode + 1) % config.long_validation_frequency = 0
          /\ val_i < LongValidationEpisodes
       THEN /\ val' = [ValIdle EXCEPT !.pc = "reset"]
            /\ UNCHANGED << pc, val_i >>
       ELSE /\ pc' = "save_model"
            /\ val_i' = 0
            /\ UNCHANGED val
    /\ UNCHANGED << constv, exc, env, windows_destroyed, episodev, modelv, bufferv,
                    checkpoints >>

\* take_most_probable_action(env, input_states, model, available_actions):
\* the id of the greatest value estimate
take_most_probable_action(model, is) ==
    np_argmax(Estimates(model, as_list(is), len(available_actions)))

\* run_validation_episode, lines 45-50
ValReset ==
    /\ prog \in TrainProgs
    /\ val.pc = "reset"
    /\ env' = env_reset(env)
    /\ val' = [val EXCEPT !.pc = "warmup",
                          !.input_states = add_state(InputStates(config.input_num_frames), 0),
                          !.warm_i = 0]
    /\ UNCHANGED << constv, pc, exc, windows_destroyed, episodev, modelv, bufferv, val_i,
                    checkpoints >>

\* run_validation_episode, lines 53-57
ValWarmupStep ==
    /\ prog \in TrainProgs
    /\ val.pc = "warmup"
    /\ val.warm_i < WarmupSteps
    /\ \E r \in env_step_results(env, config.input_num_frames) :
        /\ env' = env_step(env)
        /\ val' = [val EXCEPT !.action = get_continuous_actions(available_actions[0]),
                              !.input_states = add_state(val.input_states, r.next_state),
                              !.warm_i = val.warm_i + 1,
                              !.done = r.done]
    /\ UNCHANGED << constv, pc, exc, windows_destroyed, episodev, modelv, bufferv, val_i,
                    checkpoints >>

\* run_validation_episode, lines 60-61
ValEnterLoop ==
    /\ prog \in TrainProgs
    /\ val.pc = "warmup"
    /\ val.warm_i >= WarmupSteps
    /\ val' = [val EXCEPT !.pc = "steps", !.done = LoopFlagAfterWarmup(val.done)]
    /\ UNCHANGED << constv, pc, exc, env, windows_destroyed, episodev, modelv, bufferv,
                    val_i, checkpoints >>

ValStep_storing ==
    /\ prog \in TrainProgs
    /\ val.pc = "steps"
    /\ ~val.done
    /\ \E r \in env_step_results(env, config.input_num_frames) :
        LET id == take_most_probable_action(train_model, val.input_states)
            next_input_states == add_state(val.input_states, r.next_state)
        IN  /\ env' = env_step(env)
            /\ val' = [val EXCEPT !.action_id = id,
                                  !.input_states = next_input_states,
                                  !.done = r.done]
            /\ experience_buffer' =
                   Store(experience_buffer, r.done,
                         << as_list(val.input_states), id, r.reward,
                            as_list(next_input_states) >>)
    /\ UNCHANGED << constv, pc, exc, windows_destroyed, episodev, modelv,
                    sampled_experience, history, val_i, checkpoints >>

\* run_validation_episode, lines 61-74: one greedy step
ValStep ==
    /\ prog \in TrainProgs
    /\ val.pc = "steps"
    /\ ~val.done
    /\ \E r \in env_step_results(env, config.input_num_frames) :
        /\ env' = env_step(env)
        /\ val' = [val EXCEPT !.action_id = take_most_probable_action(train_model, val.input_states),
                              !.input_states = add_state(val.input_states, r.next_state),
                              !.done = r.done]
    /\ UNCHANGED << constv, pc, exc, windows_destroyed, episodev, modelv, bufferv, val_i,
                    checkpoints >>

\* run_validation_episode, line 76
ValReturn ==
    /\ prog \in TrainProgs
    /\ val.pc = "steps"
    /\ val.done
    /\ val' = ValIdle
    /\ val_i' = val_i + 1
    /\ UNCHANGED << constv, pc, exc, env, windows_destroyed, episodev, modelv, bufferv,
                    checkpoints >>

SaveDue_zero_based(n) == n % config.save_model_frequency = 0

\* line 302
SaveDue(n) == (n + 1) % config.save_model_frequency = 0

\* lines 301-314 and the next iteration of line 153: the checkpoint of the
\* target model (the export of the buffer writes a file only)
SaveModel ==
    /\ prog \in TrainProgs
    /\ pc = "save_model"
    /\ checkpoints' = IF SaveDue(num_episode)
                      THEN checkpoints \cup { << num_episode + 1, target_model >> }
                      ELSE checkpoints
    /\ num_episode' = num_episode + 1
    /\ pc' = "episode_start"
    /\ UNCHANGED << constv, exc, env, windows_destroyed, epsilon, input_states, warm_i,
                    done, consecutive_negative_rewards, losses, action_id, rand_draw,
                    warmup_done, action, reward, modelv, bufferv, valv >>

\* a host-level interrupt, at any position after the start
Interrupt ==
    /\ pc \notin {"start", "exit"}
    /\ Raise("KeyboardInterrupt")
    /\ UNCHANGED << constv, num_episode, modelv, experience_buffer, history,
                    checkpoints >>

----------------------------------------------------------------------------
(* test.py: main *)

\* line 38
TestMakeEnv ==
    /\ prog = "test"
    /\ pc = "start"
    /\ env' = [env EXCEPT !.handle = "open"]
    /\ pc' = "episode_start"
    /\ UNCHANGED << constv, exc, windows_destroyed, episodev, modelv, bufferv, valv,
                    checkpoints >>

\* lines 59-71
TestEpisodeStart ==
    /\ prog = "test"
    /\ pc = "episode_start"
    /\ IF num_episode < args.test_episodes
       THEN /\ env' = env_reset(env)
            /\ input_states' = add_state(InputStates(config.input_num_frames), 0)
            /\ warm_i' = 0
            /\ pc' = "warmup"
       ELSE /\ pc' = "average"
            /\ UNCHANGED << env, input_states, warm_i >>
    /\ warmup_done' = FALSE
    /\ UNCHANGED << constv, exc, windows_destroyed, num_episode, epsilon, done,
                    consecutive_negative_rewards, losses, action_id, rand_draw, action, reward,
                    modelv, bufferv, valv, checkpoints >>

\* lines 73-77
TestWarmupStep ==
    /\ prog = "test"
    /\ pc = "warmup"
    /\ warm_i < WarmupSteps
    /\ \E r \in env_step_results(env, config.input_num_frames) :
        /\ action' = get_continuous_actions(available_actions[0])
        /\ env' = env_step(env)
        /\ reward' = r.reward
        /\ done' = r.done
        /\ warmup_done' = (warmup_done \/ r.done)
        /\ input_states' = add_state(input_states, r.next_state)
    /\ warm_i' = warm_i + 1
    /\ UNCHANGED << constv, pc, exc, windows_destroyed, num_episode, epsilon,
                    consecutive_negative_rewards, losses, action_id, rand_draw, modelv, bufferv,
                    valv, checkpoints >>

\* lines 80-82
TestEnterLoop ==
    /\ prog = "test"
    /\ pc = "warmup"
    /\ warm_i >= WarmupSteps
    /\ done' = LoopFlagAfterWarmup(done)
    /\ pc' = "steps"
    /\ UNCHANGED << constv, exc, env, windows_destroyed, num_episode, epsilon,
                    input_states, warm_i, consecutive_negative_rewards, losses, action_id,
                    rand_draw, warmup_done, action, reward, modelv, bufferv, valv, checkpoints >>

\* lines 82-101: one greedy step
TestStep ==
    /\ prog = "test"
    /\ pc = "steps"
    /\ ~done
    /\ \E r \in env_step_results(env, config.input_num_frames) :
        LET id == take_most_probable_action(train_model, input_states)
        IN  /\ action_id' = id
            /\ action' = get_continuous_actions(available_actions[id])
            /\ env' = env_step(env)
            /\ reward' = r.reward
            /\ done' = r.done
            /\ input_states' = add_state(input_states, r.next_state)
    /\ UNCHANGED << constv, pc, exc, windows_destroyed, num_episode, epsilon, warm_i,
                    consecutive_negative_rewards, losses, rand_draw, warmup_done, modelv, bufferv,
                    valv, checkpoints >>

\* lines 103-105 and the next iteration of line 59
TestEpisodeEnd ==
    /\ prog = "test"
    /\ pc = "steps"
    /\ done
    /\ num_episode' = num_episode + 1
    /\ warmup_done' = FALSE
    /\ pc' = "episode_start"
    /\ UNCHANGED << constv, exc, env, windows_destroyed, epsilon, input_states, warm_i,
                    done, consecutive_negative_rewards, losses, action_id, rand_draw,
                    action, reward, modelv, bufferv, valv, checkpoints >>

\* line 107: the average over test_episodes, the last statement of main
TestAverage ==
    /\ prog = "test"
    /\ pc = "average"
    /\ IF args.test_episodes = 0
       THEN Raise("ZeroDivisionError")
       ELSE Leave("none")
    /\ UNCHANGED << constv, num_episode, modelv, experience_buffer, history,
                    checkpoints >>

----------------------------------------------------------------------------
(* space.py alone: decoding the entries of encoded_actions *)

InitCodec ==
    /\ InitCommon
    /\ prog = "codec"
    /\ config = BaseConfig
    /\ args = [initial_experience_file |-> NoFile, test_episodes |-> 0]
    /\ env = [handle |-> "none", kind |-> "free", t |-> 0, length |-> MaxSteps]

\* one call get_continuous_actions(encoded_actions[id])
Decode ==
    /\ prog = "codec"
    /\ Len(decoded) < MaxDecodes
    /\ \E id \in DOMAIN encoded_actions :
        /\ action_id' = id
        /\ action' = get_continuous_actions(encoded_actions[id])
        /\ decoded' = Append(decoded, << id, get_continuous_actions(encoded_actions[id]) >>)
    /\ UNCHANGED << prog, pc, exc, config, args, env, windows_destroyed, train_model,
                    target_model, experience_buffer, sampled_experience, num_episode,
                    epsilon, input_states, warm_i, done, consecutive_negative_rewards,
                    losses, rand_draw, warmup_done, reward, val_i, val, checkpoints, history,
                    synced,
                    decode_argument >>

SpecCodec == InitCodec /\ [][Decode]_vars

codecv == << prog, config, args, env, windows_destroyed, train_model, target_model,
             experience_buffer, sampled_experience, num_episode, epsilon, input_states,
             warm_i, done, consecutive_negative_rewards, losses, rand_draw, warmup_done,
             reward, val_i,
             val, checkpoints, history, synced, decoded >>

Indexes == (0 - 1)..MaxIndex

\* one call get_continuous_actions(d) on any three indexes; a KeyError ends
\* the caller
DecodeAny ==
    /\ prog = "codec"
    /\ pc = "start"
    /\ \E d \in Indexes \X Indexes \X Indexes :
        /\ decode_argument' = d
        /\ IF KeyErrors(d)
           THEN /\ exc' = KeyError
                /\ action' = << >>
                /\ pc' = "exit"
           ELSE /\ action' = get_continuous_actions(d)
                /\ UNCHANGED << exc, pc >>
    /\ UNCHANGED << codecv, action_id >>

\* one lookup encoded_actions[id] on any id, followed by the decoding of the
\* entry found
DecodeId ==
    /\ prog = "codec"
    /\ pc = "start"
    /\ \E id \in (0 - 1)..(len(encoded_actions) + MaxIndex) :
        /\ action_id' = id
        /\ IF id \notin DOMAIN encoded_actions
           THEN /\ exc' = KeyError
                /\ decode_argument' = << >>
                /\ action' = << >>
                /\ pc' = "exit"
           ELSE /\ decode_argument' = encoded_actions[id]
                /\ action' = get_continuous_actions(encoded_actions[id])
                /\ UNCHANGED << exc, pc >>
    /\ UNCHANGED codecv

SpecDecode == InitCodec /\ [][DecodeAny \/ DecodeId]_vars

----------------------------------------------------------------------------

Next ==
    \/ MakeEnv
    \/ Setup
    \/ LoadExperience
    \/ QLoadExperience
    \/ EpisodeStart
    \/ WarmupStep
    \/ EnterLoop
    \/ ExploreStep
    \/ SampleStep
    \/ UpdateStep
    \/ EndEpisode
    \/ ShortValidation
    \/ LongValidation
    \/ ValReset
    \/ ValWarmupStep
    \/ ValEnterLoop
    \/ ValStep
    \/ ValReturn
    \/ SaveModel
    \/ Interrupt
    \/ TestMakeEnv
    \/ TestEpisodeStart
    \/ TestWarmupStep
    \/ TestEnterLoop
    \/ TestStep
    \/ TestEpisodeEnd
    \/ TestAverage

Spec == Init /\ [][Next]_vars

----------------------------------------------------------------------------
(* Properties *)

StepPcs == { "warmup", "explore", "sample", "update" }

\* the transition of the exploration step just taken
StepTransition ==
    << as_list(input_states), action_id', reward', as_list(input_states') >>

\* C1: an exploration step that returned done = False adds exactly its
\* transition (stack before, action id, reward, stack after) to the buffer,
\* one that returned done = True adds nothing, and a warmup step adds nothing.
C1_ExploreStepStores ==
    [][ /\ (prog = "train" /\ pc = "explore" /\ pc' = "sample") =>
              experience_buffer' = IF done' THEN experience_buffer
                                   ELSE add(experience_buffer, StepTransition)
        /\ (pc = "warmup" /\ pc' = "warmup") => experience_buffer' = experience_buffer
      ]_vars

C1_Witness ==
    /\ prog = "train"
    /\ pc = "sample"
    /\ ~done
    /\ config.input_num_frames > 1
    /\ experience_buffer.size > 0
    /\ experience_buffer.buffer[experience_buffer.size][2] = action_id
    /\ experience_buffer.buffer[experience_buffer.size][4] = as_list(input_states)

Min(a, b) == IF a < b THEN a ELSE b

\* C2: the buffer never holds more than max_size transitions, seeded or not:
\* it holds the most recent min(n, max_size) of the n transitions given to it,
\* oldest first, and it is full once n exceeds max_size.
C2_BufferKeepsMostRecent ==
    LET n == Len(history)
        eb == experience_buffer
    IN  /\ eb.size <= eb.max_size
        /\ eb.size = Len(eb.buffer)
        /\ eb.size = Min(n, eb.max_size)
        /\ eb.buffer = SubSeq(history, n - eb.size + 1, n)
        /\ n >= eb.max_size + 1 => is_full(eb)

C2_Witness ==
    /\ prog = "train"
    /\ pc = "sample"
    /\ experience_buffer.max_size > 1
    /\ Len(history) >= experience_buffer.max_size + 1
    /\ is_full(experience_buffer)
    /\ experience_buffer.buffer[1] = history[Len(history) - experience_buffer.max_size + 1]
    /\ experience_buffer.buffer[1] # history[1]

\* C3: a sample of a non-empty buffer has exactly batch_size entries, each of
\* them stored in the buffer, also when the buffer holds fewer than batch_size;
\* the error of sampling is raised for the empty buffer only.
C3_SampleFromContents ==
    /\ pc = "update" =>
          /\ experience_buffer.size > 0
          /\ Len(sampled_experience) = config.batch_size
          /\ \A k \in 1..Len(sampled_experience) :
                \E i \in 1..experience_buffer.size :
                    sampled_experience[k] = experience_buffer.buffer[i]
    /\ exc = "InsufficientDataError" => experience_buffer.size = 0

C3_Witness ==
    /\ pc = "update"
    /\ experience_buffer.size < config.batch_size
    /\ Len(sampled_experience) = config.batch_size
    /\ sampled_experience[1] = sampled_experience[2]

\* C4: the target parameters are the train parameters as they were at the most
\* recent sync event (the copy at startup, the end of every episode whose
\* 1-based number is a multiple of update_target_frequency); a gradient step
\* leaves them alone.
C4_TargetIsLastSync == target_model = synced

C4_Witness ==
    /\ prog = "train"
    /\ pc = "explore"
    /\ num_episode >= 1
    /\ target_model >= 1
    /\ train_model > target_model

\* C5, as amended: the counter of consecutive negative rewards is 0 when the
\* step loop is entered, every step resets it (reward >= 0) or adds one
\* (reward < 0), no exploration step runs once it equals
\* consecutive_negative_reward_stop, the episode ends after the training step
\* that follows also when done is False, and with a threshold >= 0 it never
\* exceeds the threshold.
C5_NegativeRewardStop ==
    [][ /\ (prog = "train" /\ pc = "warmup" /\ pc' \in {"explore", "episode_end"}) =>
              consecutive_negative_rewards' = 0
        /\ (prog = "train" /\ pc = "explore" /\ pc' = "sample") =>
              /\ consecutive_negative_rewards < config.consecutive_neg_reward_stop
              /\ consecutive_negative_rewards' =
                     IF reward' >= 0 THEN 0 ELSE consecutive_negative_rewards + 1
        /\ (/\ prog = "train" /\ pc = "update" /\ pc' # "exit"
            /\ consecutive_negative_rewards = config.consecutive_neg_reward_stop) =>
              pc' = "episode_end"
        /\ config.consecutive_neg_reward_stop >= 0 =>
              consecutive_negative_rewards' <= config.consecutive_neg_reward_stop
      ]_vars

C5_Witness ==
    /\ prog = "train"
    /\ pc = "episode_end"
    /\ ~done
    /\ reward < 0
    /\ config.consecutive_neg_reward_stop >= 1
    /\ consecutive_negative_rewards = config.consecutive_neg_reward_stop

\* C5, as claimed: in a training episode the counter never exceeds the
\* threshold.
C5_CounterNeverExceeds ==
    (prog = "train" /\ pc \in {"explore", "sample", "update", "episode_end"}) =>
        consecutive_negative_rewards <= config.consecutive_neg_reward_stop

\* the exploration rate of the episode with 0-based index e
Schedule(e) ==
    config.min_epsilon * EpsUnit
        + (config.initial_epsilon - config.min_epsilon)
            * np_exp((0 - config.eps_decay_rate) * e)

\* C6, as amended: the rate of episode e is min_epsilon + (initial_epsilon -
\* min_epsilon) * exp(-eps_decay_rate * e), which is initial_epsilon at e = 0;
\* no step of the episode changes it; when initial_epsilon >= min_epsilon and
\* eps_decay_rate >= 0 it does not increase from one episode to the next and
\* stays at or above min_epsilon, and when eps_decay_rate > 0 it gets closer
\* to min_epsilon with every episode.
C6_EpsilonSchedule ==
    [][ /\ (prog = "train" /\ pc = "episode_start" /\ pc' = "warmup") =>
              /\ epsilon' = Schedule(num_episode)
              /\ num_episode = 0 => epsilon' = config.initial_epsilon * EpsUnit
              /\ (/\ num_episode >= 1
                  /\ config.initial_epsilon >= config.min_epsilon
                  /\ config.eps_decay_rate >= 0) =>
                    /\ epsilon' <= epsilon
                    /\ epsilon' >= config.min_epsilon * EpsUnit
              /\ (/\ num_episode >= 1
                  /\ config.initial_epsilon > config.min_epsilon
                  /\ config.eps_decay_rate > 0) =>
                    epsilon' < epsilon
        /\ (prog = "train" /\ pc \in StepPcs /\ pc' \in StepPcs \cup {"episode_end"}) =>
              epsilon' = epsilon
      ]_vars

C6_Witness ==
    /\ prog = "train"
    /\ pc = "explore"
    /\ num_episode >= 1
    /\ config.eps_decay_rate > 0
    /\ epsilon < config.initial_epsilon * EpsUnit
    /\ epsilon > config.min_epsilon * EpsUnit

\* C6, as claimed: for every configuration the loader accepts the rate does
\* not increase from one episode to the next.
C6_NonIncreasingForEveryConfig ==
    [][ (prog = "train" /\ pc = "episode_start" /\ pc' = "warmup" /\ num_episode >= 1) =>
            epsilon' <= epsilon ]_vars

\* C7: a greedy evaluation episode (a validation episode of training, every
\* episode of the test program) leaves the buffer and both parameter sets
\* unchanged, and each of its actions is the argmax of the value estimates.
C7_EvaluationIsReadOnly ==
    [][ /\ (val.pc # "idle" \/ prog = "test") =>
              /\ experience_buffer' = experience_buffer
              /\ train_model' = train_model
              /\ target_model' = target_model
        /\ (val.pc = "steps" /\ val'.pc = "steps" /\ env'.t # env.t) =>
              val'.action_id =
                  np_argmax(Estimates(train_model, as_list(val.input_states),
                                      len(available_actions)))
        /\ (prog = "test" /\ pc = "steps" /\ pc' = "steps" /\ env'.t # env.t) =>
              action_id' =
                  np_argmax(Estimates(train_model, as_list(input_states),
                                      len(available_actions)))
      ]_vars

C7_Witness ==
    /\ prog = "train"
    /\ val.pc = "steps"
    /\ val.done
    /\ val_i >= 1
    /\ experience_buffer.size > 0
    /\ train_model > 0

\* C8: decoding the entry of an id 0..11 gives (steer, gas, brake) with steer
\* in {-1, 0, 1}, gas and brake in {0, 1}; the 12 ids give the 12 combinations,
\* one each; two calls with the same id give the same vector.
C8_DecodeFullEnumeration ==
    /\ \A k \in 1..Len(decoded) :
          decoded[k][2] \in {-1, 0, 1} \X {0, 1} \X {0, 1}
    /\ \A k, l \in 1..Len(decoded) :
          (decoded[k][1] = decoded[l][1]) <=> (decoded[k][2] = decoded[l][2])
    /\ DOMAIN encoded_actions = 0..11
    /\ { get_continuous_actions(encoded_actions[id]) : id \in DOMAIN encoded_actions }
          = {-1, 0, 1} \X {0, 1} \X {0, 1}

C8_Witness ==
    /\ prog = "codec"
    /\ Len(decoded) = MaxDecodes
    /\ decoded[1][1] = decoded[2][1]
    /\ decoded[1][1] # decoded[3][1]
    /\ decoded[3] = << 11, << 1, 1, 1 >> >>

\* C9: the synthetic episode of 20 steps (reward 1, done on the last step
\* only) from an empty buffer with input_num_frames = 4,
\* experience_buffer_size = 100 and batch_size = 8 stores 19 transitions and
\* leaves the buffer with size 19.
C9_ScenarioStores19 ==
    (env.kind = "synthetic" /\ pc = "exit" /\ exc # "KeyboardInterrupt") =>
        /\ Len(history) = 19
        /\ experience_buffer.size = 19

\* C10: whenever the train or the test program is left after the environment
\* was created, the environment is closed and the windows are destroyed.
C10_ReleasedOnEveryExit ==
    (prog \in {"train", "test"} /\ pc = "exit") =>
        /\ env.handle = "closed"
        /\ windows_destroyed

\* the positions of main before the first episode, and its end
BeforeEpisodes == { "start", "setup", "load_experience", "exit" }

\* C11: when the pre-recorded buffer's capacity exceeds
\* config.experience_buffer_size the program ends with an assertion before
\* any episode starts; otherwise every pre-recorded transition is in the
\* training buffer when the first episode starts.
C11_SeedingChecksCapacity ==
    LET file == args.initial_experience_file
        loaded == file.pickle
    IN  (prog \in TrainProgs /\ file.given /\ file.exists) =>
            IF loaded.max_size > config.experience_buffer_size
            THEN /\ pc \in BeforeEpisodes
                 /\ pc = "exit" => exc \in {"AssertionError", "KeyboardInterrupt"}
            ELSE (pc = "episode_start" /\ num_episode = 0) =>
                    \A i \in 1..loaded.size :
                        \E j \in 1..experience_buffer.size :
                            experience_buffer.buffer[j] = loaded.buffer[i]

\* C12: no run averages over nothing: the test program does not divide by
\* test_episodes = 0, and the average loss of a training episode is taken
\* over at least one loss.
C12_NoAverageOverNothing ==
    /\ exc # "ZeroDivisionError"
    /\ (prog \in TrainProgs /\ pc = "episode_end") => losses >= 1

\* C13: the transition stored by a step has as before-state the stack ahead
\* of add_state(next_state) and as after-state the stack after it, which is
\* the before-state with its oldest frame dropped and the new frame appended,
\* both of input_num_frames frames; and no later step changes a transition
\* that is in the buffer (a step only appends one, evicting the oldest).
C13_StoredStatesAreSnapshots ==
    [][ /\ (prog \in TrainProgs /\ pc = "explore" /\ pc' = "sample" /\ ~done') =>
              LET rec == experience_buffer'.buffer[experience_buffer'.size]
              IN  /\ rec[1] = as_list(input_states)
                  /\ rec[4] = as_list(input_states')
                  /\ Len(rec[1]) = config.input_num_frames
                  /\ Len(rec[4]) = config.input_num_frames
                  /\ rec[4] = Append(Tail(rec[1]), env'.t)
        /\ (prog \in TrainProgs /\ pc # "load_experience") =>
              LET b == experience_buffer.buffer
                  b1 == experience_buffer'.buffer
              IN  \/ b1 = b
                  \/ /\ Len(b1) >= 1
                     /\ SubSeq(b1, 1, Len(b1) - 1)
                            \in (IF b = << >> THEN { b } ELSE { b, Tail(b) })
      ]_vars

C13_Witness ==
    /\ prog \in TrainProgs
    /\ pc = "sample"
    /\ config.input_num_frames >= 2
    /\ \E i \in 1..experience_buffer.size :
          LET rec == experience_buffer.buffer[i]
          IN  /\ Len(rec) = 4
              /\ rec[1][1] >= 0
              /\ rec[4] = Append(Tail(rec[1]), rec[4][Len(rec[4])])
              /\ rec[1] # rec[4]
              /\ rec[4] # as_list(input_states)

\* C14: a call of the codec on an id that is no key of encoded_actions, or on
\* a steer index outside {0, 1, 2} or a gas or brake index outside {0, 1},
\* ends with the error of a failed lookup and gives no vector; every other
\* call gives a vector and no error.
C14_OutOfRangeFails ==
    LET d == decode_argument
        bad_id == action_id \notin 0..11
        bad_index == /\ d # << >>
                     /\ (d[1] \notin {0, 1, 2} \/ d[2] \notin {0, 1} \/ d[3] \notin {0, 1})
    IN  /\ (bad_id \/ bad_index) => (exc = "KeyError" /\ action = << >> /\ pc = "exit")
        /\ (~bad_id /\ ~bad_index /\ d # << >>) => (exc = "none" /\ Len(action) = 3)

C14_Witness ==
    /\ prog = "codec"
    /\ decode_argument = << 3, 1, 0 >>
    /\ exc = "KeyError"
    /\ action = << >>

\* C15: every record of a sampled minibatch has the four components written
\* by add, and the training step never fails on splitting the minibatch into
\* its per-component lists.
C15_SplitNeverFails ==
    /\ (prog \in TrainProgs /\ pc = "update") =>
          \A k \in 1..Len(sampled_experience) : Len(sampled_experience[k]) = 4
    /\ exc # "ValueError"

\* C16: whenever sample(batch_size) is called the buffer holds at least one
\* transition.
C16_SampleOnNonEmptyBuffer ==
    (prog \in TrainProgs /\ pc = "sample") => experience_buffer.size >= 1

\* C17: the action applied in a warmup step of a training, validation or
\* test episode is the first entry of the enumeration, and its decoded vector
\* is steer 0, gas 0, brake 0.
C17_WarmupActionNeutral ==
    /\ (prog \in TrainProgs \cup {"test"} /\ pc = "warmup" /\ warm_i >= 1) =>
          /\ action = get_continuous_actions(available_actions[0])
          /\ action = << 0, 0, 0 >>
    /\ (val.pc = "warmup" /\ val.warm_i >= 1) =>
          /\ val.action = get_continuous_actions(available_actions[0])
          /\ val.action = << 0, 0, 0 >>

\* frames are numbered by the step that produced them: at the end of warmup
\* the stack holds frames 0 .. input_num_frames - 1
Inferring ==
    \/ prog \in TrainProgs /\ pc = "explore" /\ val.pc = "idle"
    \/ prog = "test" /\ pc = "steps"

\* C18: at the end of warmup and at every model inference of a training,
\* validation or test episode the stack holds exactly input_num_frames
\* frames; after input_num_frames further add_state calls none of the frames
\* it held at the end of warmup is left in as_list().
C18_StackHoldsNFrames ==
    LET N == config.input_num_frames
        Evicted(frames) == \A i \in 1..Len(frames) : frames[i] \notin 0..(N - 1)
    IN  /\ (prog \in TrainProgs \cup {"test"} /\ pc = "warmup" /\ warm_i >= N - 1) =>
              as_list(input_states) = [i \in 1..N |-> i - 1]
        /\ (val.pc = "warmup" /\ val.warm_i >= N - 1) =>
              as_list(val.input_states) = [i \in 1..N |-> i - 1]
        /\ Inferring => Len(as_list(input_states)) = N
        /\ val.pc = "steps" => Len(as_list(val.input_states)) = N
        /\ (Inferring /\ env.t - (N - 1) >= N) => Evicted(as_list(input_states))
        /\ (val.pc = "steps" /\ env.t - (N - 1) >= N) => Evicted(as_list(val.input_states))

C18_Witness ==
    /\ prog = "test"
    /\ pc = "steps"
    /\ config.input_num_frames = 2
    /\ env.t = 3
    /\ as_list(input_states) = << 2, 3 >>


\* C19: in every explore step the chosen action id is an index of the
\* configured enumeration, 0 <= id < len(available_actions), so that looking
\* it up and decoding it raises no KeyError and gives a three-component
\* vector; and when the random draw is not below epsilon, the id is the
\* smallest index at which the train policy's estimates of the stacked state
\* are maximal.
C19_ExploreChoosesValidAction ==
    [][ (prog \in TrainProgs /\ pc = "explore" /\ pc' = "sample") =>
          LET n == len(available_actions)
              values == Estimates(train_model, as_list(input_states), n)
              id == action_id'
          IN  /\ id \in 0..(n - 1)
              /\ id \in DOMAIN available_actions
              /\ ~KeyErrors(available_actions[id])
              /\ action' = get_continuous_actions(available_actions[id])
              /\ Len(action') = 3
              /\ exc' = "none"
              /\ rand_draw' >= epsilon =>
                    /\ \A j \in 0..(n - 1) : values[j] <= values[id]
                    /\ \A j \in 0..(id - 1) : values[j] < values[id]
      ]_vars

\* an explore step has taken the greedy branch although epsilon is positive,
\* and the first maximum of the tied estimates is not at index 0
C19_Witness ==
    /\ prog = "train" /\ pc = "sample"
    /\ epsilon > 0 /\ rand_draw >= epsilon
    /\ action_id > 0 /\ action_id < len(available_actions) - 1


\* a step of the episode loop of a training program that no KeyboardInterrupt
\* cuts short
UninterruptedLoopStep ==
    /\ prog \in TrainProgs
    /\ pc \in {"explore", "sample", "update"}
    /\ pc' # pc
    /\ exc' # "KeyboardInterrupt"

\* C20: within a training episode explore steps and training steps strictly
\* alternate: every explore step is followed by one sample and one gradient
\* step (one more loss, one update of the train parameters) before the next
\* explore step or the end of the episode, so that the number of gradient
\* steps of the episode equals its number of explore steps.
C20_ExploreAndTrainAlternate ==
    [][ UninterruptedLoopStep =>
          /\ pc = "explore" => pc' = "sample"
          /\ pc = "sample" => pc' = "update"
          /\ pc = "update" =>
                /\ pc' \in {"explore", "episode_end"}
                /\ train_model' = train_model + 1
                /\ losses' = losses + 1
                /\ losses' = env.t - WarmupSteps
      ]_vars

\* the step loop of the program cannot be entered at all
NoLoopBody == prog = "train" /\ config.consecutive_neg_reward_stop < 1

\* C21: a done=True returned by a warmup step is discarded.  When the step
\* loop of a training, validation or test episode is entered the loop flag
\* is False whatever the warmup steps returned, and the loop body is entered
\* (in carracing/qlearning/train.py provided consecutive_neg_reward_stop >= 1);
\* and no episode leaves its step loop, unless by an exception, before the environment has
\* made a step after the warmup steps.
C21_WarmupDoneDiscarded ==
    [][ /\ (prog \in TrainProgs /\ pc = "warmup" /\ pc' \notin {"warmup", "exit"}) =>
              /\ done' = FALSE
              /\ ~NoLoopBody => pc' = "explore"
        /\ (prog = "test" /\ pc = "warmup" /\ pc' \notin {"warmup", "exit"}) =>
              /\ done' = FALSE
              /\ pc' = "steps"
        /\ (val.pc = "warmup" /\ val'.pc \notin {"warmup", "idle"}) =>
              /\ val'.done = FALSE
              /\ val'.pc = "steps"
        /\ (prog \in TrainProgs /\ pc' = "episode_end" /\ pc # "episode_end" /\ ~NoLoopBody) =>
              env.t > WarmupSteps
        /\ (prog = "test" /\ pc = "steps" /\ pc' \notin {"steps", "exit"}) =>
              env.t > WarmupSteps
        /\ (val.pc = "steps" /\ val'.pc = "idle" /\ pc' # "exit") => env.t > WarmupSteps
      ]_vars

\* a training episode whose warmup returned done=True has made its first
\* explore step
C21_Witness ==
    /\ prog = "train" /\ pc = "sample"
    /\ warmup_done /\ WarmupSteps >= 1 /\ env.t = WarmupSteps + 1


\* the environment has returned k negative rewards in a row, none of them with
\* done=True, in the steps of the running episode: each of these steps has
\* stored its transition, so they are the last k of the history
NegativeStreak(k) ==
    /\ k >= 1
    /\ env.t - WarmupSteps >= k
    /\ Len(history) >= k
    /\ \A i \in 0..(k - 1) : history[Len(history) - i][3] < 0

\* C22: the step loop of every training episode ends as soon as either exit
\* condition holds: no further explore step is begun after the environment
\* has returned done=True, nor after it has returned
\* consecutive_negative_reward_stop negative rewards in a row.
C22_BothExitConditionsChecked ==
    [][ (prog \in TrainProgs /\ pc = "update" /\ pc' = "explore") =>
          /\ ~done
          /\ ~NegativeStreak(config.consecutive_neg_reward_stop)
      ]_vars


\* C23: a checkpoint is written at the end of exactly those episodes whose
\* 1-based number is a multiple of save_model_frequency, and at no other
\* moment.  It holds the target parameters of that moment: the target sync of
\* the same episode end has already run, so that they are the train
\* parameters when the number is also a multiple of update_target_frequency,
\* and otherwise the train parameters of the most recent earlier sync event
\* (the copy at startup included).
C23_CheckpointHoldsTargetAfterSync ==
    [][ /\ checkpoints' # checkpoints => (prog \in TrainProgs /\ pc = "save_model")
        /\ (prog \in TrainProgs /\ pc = "save_model" /\ pc' = "episode_start") =>
              LET k == num_episode + 1
                  saved == { c \in checkpoints' : c[1] = k }
              IN  /\ num_episode' = k
                  /\ \A c \in checkpoints' :
                        c[1] \in 1..k /\ c[1] % config.save_model_frequency = 0
                  /\ \A j \in 1..k :
                        j % config.save_model_frequency = 0 =>
                            \E c \in checkpoints' : c[1] = j
                  /\ checkpoints \subseteq checkpoints'
                  /\ k % config.save_model_frequency = 0 =>
                        /\ saved = { << k, target_model >> }
                        /\ k % config.update_target_frequency = 0 =>
                              target_model = train_model
                        /\ k % config.update_target_frequency # 0 =>
                              target_model = synced
      ]_vars

\* two episodes have ended with save_model_frequency 1 and
\* update_target_frequency 2: the checkpoint of episode 1 holds the parameters
\* of the startup copy, older than the train parameters of that moment, and
\* the checkpoint of episode 2 holds the train parameters of its end
C23_Witness ==
    /\ prog = "train" /\ pc = "episode_start" /\ num_episode = 2
    /\ config.save_model_frequency = 1 /\ config.update_target_frequency = 2
    /\ train_model >= 2
    /\ checkpoints = { << 1, 0 >>, << 2, train_model >> }

====
